---- MODULE Spec2Model ----
(***************************************************************************)
(* Lead Synapse (src/app.py): a Streamlit page that validates a form,      *)
(* builds a two-task sequential crew, calls crew.kickoff once and renders  *)
(* the two markdown files the crew's tasks write.                          *)
(*                                                                         *)
(* The script is re-executed from the top on every widget interaction.    *)
(* `clicked` is the button that is True in the current execution; widgets  *)
(* inside st.form do not re-execute the script until the form is          *)
(* submitted.  The external calls (setup_crew's constructors and           *)
(* crew.kickoff) are opaque: each may raise, and kickoff may write any     *)
(* subset of its tasks' output files.                                      *)
(***************************************************************************)
EXTENDS Integers, Sequences, FiniteSets, TLC

\* ---- bounds ----
MaxRuns == 2                         \* accepted submissions per behaviour

\* ---- value sets of the inputs ----
\* "" is an empty input or an unset variable.  The Serper key has two
\* non-empty values, so that a saved key can overwrite a different one.
SerperKeyValues == {"", "k1", "k2"}
ExaKeyValues == {"", "k1"}
LlmKeyValues == {"", "k1"}
DomainValues == {"", "fintech"}
AreaValues == {"", "London"}

EnvVars == {"SERPER_API_KEY", "EXA_API_KEY", "OPENAI_API_KEY", "GROQ_API_KEY"}
Providers == {"OpenAI", "Groq"}
OutputFiles == {"companies.md", "people.md"}
NoFile == -1                         \* the file does not exist
OldContent == 0                      \* content on disk before the app started

VARIABLES
    environ,          \* os.environ restricted to the four key variables
    serper_api_key,   \* sidebar text input
    exa_api_key,      \* sidebar text input
    llm_option,       \* sidebar selectbox
    openai_api_key,   \* sidebar text input, rendered only for OpenAI
    groq_api_key,     \* sidebar text input, rendered only for Groq
    form_domain,      \* pending value of the form's Industry Domain input
    form_area,        \* pending value of the form's Geographic Area input
    domain,           \* `domain` as the script sees it (last submitted value)
    area,             \* `area` as the script sees it (last submitted value)
    clicked,          \* the button that is True in the current execution
    pc,               \* position of the current script execution
    crew,             \* <<>> or <<the Crew built by setup_crew>>
    kickoffCalls,     \* calls of crew.kickoff in the current execution
    raised,           \* which external call raised in the current execution
    filesRead,        \* output files opened and read in the current execution
    files,            \* the working directory: file name -> content or NoFile
    runId,            \* number of accepted submissions so far
    progress,         \* successive contents of progress_container
    screen            \* what the current execution has rendered

vars == <<environ, serper_api_key, exa_api_key, llm_option, openai_api_key,
          groq_api_key, form_domain, form_area, domain, area, clicked, pc,
          crew, kickoffCalls, raised, filesRead, files, runId, progress,
          screen>>

\* ---- messages and statuses (the literals of src/app.py) ----
MsgSaved == "API keys saved successfully!"
MsgInputs == "Please provide both industry domain and geographic area"
MsgSearchKeys == "API keys for Serper and Exa are required"
MsgOpenAIKey == "API key for OpenAI is required"
MsgGroqKey == "API key for Groq is required"
MsgNoFiles == "Output files were not generated. Please check the logs."
MsgError == "An error occurred"
MsgCsvWarning == "Could not parse results to CSV"
MsgReport == "Comprehensive report generated successfully!"

StatusStarting == "Starting lead generation process..."
StatusFinding == "Finding companies in the specified industry and location..."
StatusSuccess == "Lead generation completed successfully!"
StatusError == "Error"

BtnNone == "none"
BtnSave == "Save API Keys"
BtnRun == "Start Lead Generation"
BtnReport == "Generate Comprehensive Report"

\* ---- the page ----
NoResults == <<>>

BlankScreen ==
    [messages |-> <<>>,
     results |-> NoResults,
     csv_buttons |-> FALSE,
     report_button |-> FALSE,
     report_download |-> <<>>]

ProviderVar(p) == IF p = "OpenAI" THEN "OPENAI_API_KEY" ELSE "GROQ_API_KEY"

\* The provider key input rendered in the sidebar.
ProviderInput == IF llm_option = "OpenAI" THEN openai_api_key ELSE groq_api_key

\* A script execution starts with fresh locals.
FreshLocals ==
    /\ crew' = <<>>
    /\ kickoffCalls' = 0
    /\ raised' = "none"
    /\ filesRead' = {}
    /\ progress' = <<>>

Init ==
    /\ environ \in [EnvVars -> SerperKeyValues]
    /\ environ["EXA_API_KEY"] \in ExaKeyValues
    /\ environ["OPENAI_API_KEY"] \in LlmKeyValues
    /\ environ["GROQ_API_KEY"] \in LlmKeyValues
    /\ serper_api_key = environ["SERPER_API_KEY"]
    /\ exa_api_key = environ["EXA_API_KEY"]
    /\ llm_option = "OpenAI"
    /\ openai_api_key = environ["OPENAI_API_KEY"]
    /\ groq_api_key = ""
    /\ form_domain = ""
    /\ form_area = ""
    /\ domain = ""
    /\ area = ""
    /\ clicked = BtnNone
    /\ pc = "idle"
    /\ crew = <<>>
    /\ kickoffCalls = 0
    /\ raised = "none"
    /\ filesRead = {}
    /\ files \in [OutputFiles -> {NoFile, OldContent}]
    /\ runId = 0
    /\ progress = <<>>
    /\ screen = BlankScreen

\* ---- sidebar ----

\* Editing a sidebar widget re-executes the script with no button True.
SidebarRerun ==
    /\ clicked' = BtnNone
    /\ screen' = BlankScreen
    /\ FreshLocals
    /\ UNCHANGED <<environ, form_domain, form_area, domain, area, pc, files,
                   runId>>

TypeSerperKey ==
    /\ pc = "idle"
    /\ \E k \in SerperKeyValues : k # serper_api_key /\ serper_api_key' = k
    /\ SidebarRerun
    /\ UNCHANGED <<exa_api_key, llm_option, openai_api_key, groq_api_key>>

TypeExaKey ==
    /\ pc = "idle"
    /\ \E k \in ExaKeyValues : k # exa_api_key /\ exa_api_key' = k
    /\ SidebarRerun
    /\ UNCHANGED <<serper_api_key, llm_option, openai_api_key, groq_api_key>>

TypeProviderKey ==
    /\ pc = "idle"
    /\ \E k \in LlmKeyValues :
          /\ k # ProviderInput
          /\ IF llm_option = "OpenAI"
                THEN openai_api_key' = k /\ UNCHANGED groq_api_key
                ELSE groq_api_key' = k /\ UNCHANGED openai_api_key
    /\ SidebarRerun
    /\ UNCHANGED <<serper_api_key, exa_api_key, llm_option>>

\* The other provider's input is rendered with its default, os.getenv(...).
SelectProvider ==
    /\ pc = "idle"
    /\ \E p \in Providers :
          /\ p # llm_option
          /\ llm_option' = p
          /\ IF p = "OpenAI"
                THEN openai_api_key' = environ["OPENAI_API_KEY"] /\ groq_api_key' = ""
                ELSE groq_api_key' = environ["GROQ_API_KEY"] /\ openai_api_key' = ""
    /\ SidebarRerun
    /\ UNCHANGED <<serper_api_key, exa_api_key>>

\* Faulty variant of SaveKeys: the `if <input>:` guards are dropped, so an empty input
\* is written to its variable.
SaveKeys_Unguarded(env, serper, exa, opt, openai, groq) ==
    [v \in EnvVars |->
        IF v = "SERPER_API_KEY" THEN serper
        ELSE IF v = "EXA_API_KEY" THEN exa
        ELSE IF v = "OPENAI_API_KEY" /\ opt = "OpenAI" THEN openai
        ELSE IF v = "GROQ_API_KEY" /\ opt = "Groq" THEN groq
        ELSE env[v]]

\* The environment after the body of `if st.button("Save API Keys")`.
SaveKeys(env, serper, exa, opt, openai, groq) ==
    [v \in EnvVars |->
        IF v = "SERPER_API_KEY" /\ serper # "" THEN serper
        ELSE IF v = "EXA_API_KEY" /\ exa # "" THEN exa
        ELSE IF v = "OPENAI_API_KEY" /\ opt = "OpenAI" /\ openai # "" THEN openai
        ELSE IF v = "GROQ_API_KEY" /\ opt = "Groq" /\ groq # "" THEN groq
        ELSE env[v]]

ClickSaveKeys ==
    /\ pc = "idle"
    /\ environ' = SaveKeys(environ, serper_api_key, exa_api_key, llm_option,
                           openai_api_key, groq_api_key)
    /\ clicked' = BtnSave
    /\ screen' = [BlankScreen EXCEPT !.messages = <<MsgSaved>>]
    /\ FreshLocals
    /\ UNCHANGED <<serper_api_key, exa_api_key, llm_option, openai_api_key,
                   groq_api_key, form_domain, form_area, domain, area, pc,
                   files, runId>>

\* ---- form ----

\* Typing in a form widget changes the pending value only: no re-execution.
TypeDomain ==
    /\ pc = "idle"
    /\ \E d \in DomainValues : d # form_domain /\ form_domain' = d
    /\ UNCHANGED <<environ, serper_api_key, exa_api_key, llm_option,
                   openai_api_key, groq_api_key, form_area, domain, area,
                   clicked, crew, kickoffCalls, raised, filesRead, files,
                   runId, progress, screen, pc>>

TypeArea ==
    /\ pc = "idle"
    /\ \E a \in AreaValues : a # form_area /\ form_area' = a
    /\ UNCHANGED <<environ, serper_api_key, exa_api_key, llm_option,
                   openai_api_key, groq_api_key, form_domain, domain, area,
                   clicked, crew, kickoffCalls, raised, filesRead, files,
                   runId, progress, screen, pc>>

\* Faulty variant of ValidationError: the provider-key elif is missing.
ValidationError_NoLlmCheck(d, a, env, opt) ==
    IF ~(d # "" /\ a # "") THEN MsgInputs
    ELSE IF ~(env["SERPER_API_KEY"] # "" /\ env["EXA_API_KEY"] # "")
        THEN MsgSearchKeys
    ELSE ""

\* The if/elif chain of the run_button block: the error shown, or "" when the
\* else branch (the run) is taken.
ValidationError(d, a, env, opt) ==
    IF ~(d # "" /\ a # "") THEN MsgInputs
    ELSE IF ~(env["SERPER_API_KEY"] # "" /\ env["EXA_API_KEY"] # "")
        THEN MsgSearchKeys
    ELSE IF \/ (opt = "OpenAI" /\ env["OPENAI_API_KEY"] = "")
            \/ (opt = "Groq" /\ env["GROQ_API_KEY"] = "")
        THEN (IF opt = "OpenAI" THEN MsgOpenAIKey ELSE MsgGroqKey)
    ELSE ""

\* Submitting the form re-executes the script with run_button True.
ClickStart ==
    /\ pc = "idle"
    /\ clicked' = BtnRun
    /\ domain' = form_domain
    /\ area' = form_area
    /\ crew' = <<>>
    /\ kickoffCalls' = 0
    /\ raised' = "none"
    /\ filesRead' = {}
    /\ LET err == ValidationError(form_domain, form_area, environ, llm_option)
       IN  IF err # ""
             THEN /\ screen' = [BlankScreen EXCEPT !.messages = <<err>>]
                  /\ progress' = <<>>
                  /\ pc' = "idle"
                  /\ UNCHANGED runId
             ELSE /\ runId < MaxRuns
                  /\ runId' = runId + 1
                  /\ screen' = BlankScreen
                  /\ progress' = <<StatusStarting>>
                  /\ pc' = "setup_crew"
    /\ UNCHANGED <<environ, serper_api_key, exa_api_key, llm_option,
                   openai_api_key, groq_api_key, form_domain, form_area,
                   files>>

\* ---- the crew ----

\* The Crew object setup_crew returns.
setup_crew(d, a, opt) ==
    [agents |-> <<"company_finder_agent", "linkedin_agent">>,
     tasks |-> <<[name |-> "company_finder_task",
                  agent |-> "company_finder_agent",
                  context |-> <<>>,
                  output_file |-> "companies.md"],
                 [name |-> "linkedin_task",
                  agent |-> "linkedin_agent",
                  context |-> <<"company_finder_task">>,
                  output_file |-> "people.md"]>>,
     process |-> "sequential",
     llm |-> opt,
     domain |-> d,
     area |-> a]

\* Faulty variant of ExceptHandler: the exception is swallowed and the script goes on
\* to the success status and the file read-back.
ExceptHandler_Swallow(call) ==
    /\ raised' = call
    /\ progress' = Append(progress, StatusSuccess)
    /\ pc' = "read"
    /\ UNCHANGED screen

\* The outer `except Exception` handler.
ExceptHandler(call) ==
    /\ raised' = call
    /\ progress' = Append(progress, StatusError)
    /\ screen' = [screen EXCEPT !.messages = Append(@, MsgError)]
    /\ pc' = "idle"

\* crew = setup_crew(...): the library's constructors return or raise.
SetupCrew ==
    /\ pc = "setup_crew"
    /\ \/ /\ crew' = <<setup_crew(domain, area, llm_option)>>
          /\ progress' = Append(progress, StatusFinding)
          /\ pc' = "kickoff"
          /\ UNCHANGED <<raised, screen>>
       \/ /\ ExceptHandler("setup_crew")
          /\ UNCHANGED crew
    /\ UNCHANGED <<environ, serper_api_key, exa_api_key, llm_option,
                   openai_api_key, groq_api_key, form_domain, form_area,
                   domain, area, clicked, kickoffCalls, filesRead, files,
                   runId>>

\* The output files of a crew's tasks.
TaskFiles(c) == {c.tasks[i].output_file : i \in 1..Len(c.tasks)}

\* Faulty variant of Kickoff: a raising kickoff is called again.
Kickoff_Retry ==
    /\ pc = "kickoff"
    /\ kickoffCalls' = kickoffCalls + 1
    /\ \E written \in SUBSET TaskFiles(crew[1]) :
          files' = [f \in OutputFiles |->
                       IF f \in written THEN runId ELSE files[f]]
    /\ \/ /\ progress' = Append(progress, StatusSuccess)
          /\ pc' = "read"
          /\ UNCHANGED <<raised, screen>>
       \/ /\ kickoffCalls < 2
          /\ UNCHANGED <<pc, progress, raised, screen>>
       \/ /\ kickoffCalls >= 2
          /\ ExceptHandler("kickoff")
    /\ UNCHANGED <<environ, serper_api_key, exa_api_key, llm_option,
                   openai_api_key, groq_api_key, form_domain, form_area,
                   domain, area, clicked, crew, filesRead, runId>>

\* results = crew.kickoff(...): the library writes any subset of the tasks'
\* output files, then returns or raises.
Kickoff ==
    /\ pc = "kickoff"
    /\ kickoffCalls' = kickoffCalls + 1
    /\ \E written \in SUBSET TaskFiles(crew[1]) :
          files' = [f \in OutputFiles |->
                       IF f \in written THEN runId ELSE files[f]]
    /\ \/ /\ progress' = Append(progress, StatusSuccess)
          /\ pc' = "read"
          /\ UNCHANGED <<raised, screen>>
       \/ ExceptHandler("kickoff")
    /\ UNCHANGED <<environ, serper_api_key, exa_api_key, llm_option,
                   openai_api_key, groq_api_key, form_domain, form_area,
                   domain, area, clicked, crew, filesRead, runId>>

\* ---- results ----

\* The combined report of the two markdown texts.
combined_md(companies_md, people_md) == <<companies_md, people_md>>

\* What display_results renders; parse_ok is whether the CSV conversion
\* succeeded, report_button the value of st.button("Generate ...").
display_results(companies_md, people_md, parse_ok, report_button) ==
    [messages |-> (IF parse_ok THEN <<>> ELSE <<MsgCsvWarning>>)
                    \o (IF report_button THEN <<MsgReport>> ELSE <<>>),
     results |-> <<companies_md, people_md>>,
     csv_buttons |-> parse_ok,
     report_button |-> TRUE,
     report_download |-> IF report_button
                           THEN combined_md(companies_md, people_md)
                           ELSE <<>>]

\* The inner try: read companies.md, then people.md, then display_results;
\* FileNotFoundError shows an error instead.
ReadFiles ==
    /\ pc = "read"
    /\ pc' = "idle"
    /\ IF files["companies.md"] = NoFile
         THEN /\ filesRead' = {}
              /\ screen' = [screen EXCEPT !.messages = Append(@, MsgNoFiles)]
         ELSE IF files["people.md"] = NoFile
         THEN /\ filesRead' = {"companies.md"}
              /\ screen' = [screen EXCEPT !.messages = Append(@, MsgNoFiles)]
         ELSE /\ filesRead' = {"companies.md", "people.md"}
              /\ \E parse_ok \in BOOLEAN :
                    screen' = display_results(files["companies.md"],
                                              files["people.md"], parse_ok,
                                              clicked = BtnReport)
    /\ UNCHANGED <<environ, serper_api_key, exa_api_key, llm_option,
                   openai_api_key, groq_api_key, form_domain, form_area,
                   domain, area, clicked, crew, kickoffCalls, raised, files,
                   runId, progress>>

\* Clicking "Generate Comprehensive Report" re-executes the script with that
\* button True and run_button False: the `if run_button:` block, the only
\* caller of display_results, is skipped.
ClickGenerateReport ==
    /\ pc = "idle"
    /\ screen.report_button
    /\ clicked' = BtnReport
    /\ screen' = BlankScreen
    /\ FreshLocals
    /\ UNCHANGED <<environ, serper_api_key, exa_api_key, llm_option,
                   openai_api_key, groq_api_key, form_domain, form_area,
                   domain, area, pc, files, runId>>

\* ======================= properties =======================

\* The current execution was triggered by the form and took the else branch.
Accepted == clicked = BtnRun /\ Len(progress) > 0

\* The conditions of the run_button block, on the values the script sees.
InputsGiven == domain # "" /\ area # ""
SearchKeysSet == environ["SERPER_API_KEY"] # "" /\ environ["EXA_API_KEY"] # ""
LlmKeySet == environ[ProviderVar(llm_option)] # ""

\* C1: on a form submission kickoff is called only if domain and area, the
\* Serper and Exa variables and the selected provider's variable are all
\* non-empty; otherwise exactly one error is shown, chosen in the order
\* inputs, search keys, LLM key, and kickoff is not called.
C1_KickoffOnlyWhenValid ==
    clicked = BtnRun =>
        IF InputsGiven /\ SearchKeysSet /\ LlmKeySet
          THEN \A i \in DOMAIN screen.messages :
                  screen.messages[i] \notin
                      {MsgInputs, MsgSearchKeys, MsgOpenAIKey, MsgGroqKey}
          ELSE /\ kickoffCalls = 0
               /\ pc = "idle"
               /\ crew = <<>>
               /\ screen.messages =
                     << IF ~InputsGiven THEN MsgInputs
                        ELSE IF ~SearchKeysSet THEN MsgSearchKeys
                        ELSE IF llm_option = "OpenAI" THEN MsgOpenAIKey
                        ELSE MsgGroqKey >>

\* C1 witness: kickoff has been called for a Groq submission.
C1_Witness == clicked = BtnRun /\ kickoffCalls = 1 /\ llm_option = "Groq"

\* C2: with non-empty Serper, Exa and provider keys in the sidebar inputs and
\* non-empty domain and area, clicking Start begins the process: once the
\* execution has finished, kickoff was called (unless setup_crew raised),
\* whatever the environment was and whether or not the keys were saved.
C2_FilledInputsStartRun ==
    ( /\ clicked = BtnRun
      /\ pc = "idle"
      /\ raised # "setup_crew"
      /\ InputsGiven
      /\ serper_api_key # ""
      /\ exa_api_key # ""
      /\ ProviderInput # "" )
    => kickoffCalls = 1

\* C3: clicking "Generate Comprehensive Report" on the displayed results leads
\* to the "Download Complete Report" button with the combined markdown of the
\* run.
C3_ReportDownloadOffered ==
    clicked = BtnReport =>
        screen.report_download =
            combined_md(files["companies.md"], files["people.md"])

\* C4: the displayed companies_md and people_md are the contents written by
\* the kickoff call of the same submission.
C4_DisplayedContentIsThisRuns ==
    screen.results # NoResults => screen.results = <<runId, runId>>

\* C5 (as stated): every accepted submission calls kickoff exactly once.
C5_ExactlyOneKickoff ==
    (Accepted /\ pc = "idle") => kickoffCalls = 1

\* C5 (amended): the crew has the two tasks company-finder then
\* LinkedIn-prospector under the sequential process, the second with the
\* first as context; an accepted submission calls kickoff at most once, and
\* exactly once when setup_crew returned; files are read and results rendered
\* only after kickoff returned without raising.
C5_AtMostOneKickoff ==
    /\ kickoffCalls <= 1
    /\ crew # <<>> =>
          /\ Len(crew) = 1
          /\ [i \in 1..Len(crew[1].tasks) |-> crew[1].tasks[i].name]
                = <<"company_finder_task", "linkedin_task">>
          /\ crew[1].tasks[2].context = <<crew[1].tasks[1].name>>
          /\ crew[1].tasks[1].context = <<>>
          /\ crew[1].process = "sequential"
    /\ kickoffCalls = 1 => Accepted /\ crew # <<>>
    /\ pc = "kickoff" => kickoffCalls = 0 /\ crew # <<>>
    /\ (Accepted /\ pc = "idle" /\ raised # "setup_crew") => kickoffCalls = 1
    /\ (pc = "read" \/ filesRead # {} \/ screen.results # NoResults) =>
          kickoffCalls = 1 /\ raised = "none"

\* C5 witness: a submission whose single kickoff returned and whose files
\* were read and rendered.
C5_Witness ==
    /\ Accepted
    /\ pc = "idle"
    /\ kickoffCalls = 1
    /\ filesRead = OutputFiles
    /\ screen.results # NoResults

\* The sidebar input whose value Save writes to variable v.
InputFor(v) ==
    CASE v = "SERPER_API_KEY" -> serper_api_key
      [] v = "EXA_API_KEY" -> exa_api_key
      [] v = "OPENAI_API_KEY" -> openai_api_key
      [] OTHER -> groq_api_key

\* C6: a key variable changes only on a click of "Save API Keys", and then to
\* the non-empty value typed in its input; an empty input and the unselected
\* provider leave their variables unchanged; every click shows the saved
\* message.
C6_SaveOnlySetsTypedKeys ==
    [][ /\ \A v \in EnvVars :
             environ'[v] # environ[v] =>
                 /\ clicked' = BtnSave
                 /\ pc = "idle"
                 /\ InputFor(v) # ""
                 /\ environ'[v] = InputFor(v)
                 /\ v \in {"SERPER_API_KEY", "EXA_API_KEY",
                           ProviderVar(llm_option)}
        /\ clicked' = BtnSave => screen'.messages = <<MsgSaved>>
      ]_vars

\* C6 witness: Save was clicked with an empty Serper input and the Serper
\* variable is still set.
C6_Witness ==
    /\ clicked = BtnSave
    /\ serper_api_key = ""
    /\ environ["SERPER_API_KEY"] # ""
    /\ screen.messages = <<MsgSaved>>

\* C7: if setup_crew or kickoff raises, the run ends in the error state: the
\* progress status shows the error, an error message is shown, the success
\* status was never shown, no output file was read and no results rendered.
C7_RaiseEndsInErrorState ==
    raised # "none" =>
        /\ Accepted
        /\ pc = "idle"
        /\ progress[Len(progress)] = StatusError
        /\ \A i \in DOMAIN progress : progress[i] # StatusSuccess
        /\ screen.messages = <<MsgError>>
        /\ filesRead = {}
        /\ screen.results = NoResults
        /\ ~screen.report_button

\* C7 witness: kickoff wrote companies.md and then raised.
C7_Witness == raised = "kickoff" /\ files["companies.md"] = runId

Next ==
    \/ TypeSerperKey
    \/ TypeExaKey
    \/ TypeProviderKey
    \/ SelectProvider
    \/ ClickSaveKeys
    \/ TypeDomain
    \/ TypeArea
    \/ ClickStart
    \/ SetupCrew
    \/ Kickoff
    \/ ReadFiles
    \/ ClickGenerateReport

Spec == Init /\ [][Next]_vars
====
